---- MODULE Spec2Model ----
(***************************************************************************)
(* Model of optuna/integration/mlflow.py: MLflowCallback, the callback     *)
(* that records a finished trial as an MLflow run (__call__), and its      *)
(* decorator track_in_mlflow, which opens the run before the objective     *)
(* executes.                                                               *)
(*                                                                         *)
(* Text is a sequence of one-character strings, so that str(), split() and *)
(* textwrap.shorten() are computed character by character.  Python values  *)
(* are records [type, v].  The MLflow fluent client is modelled by what    *)
(* the calls of the source rely on: an active-run stack, a run store and   *)
(* the selected experiment.                                                *)
(***************************************************************************)
EXTENDS Integers, Sequences, FiniteSets, TLC

\* ------------------------------------------------------------------ bounds

\* mlflow.utils.validation.MAX_TAG_VAL_LENGTH, scaled down (5000 in MLflow);
\* never below the 8 characters of "COMPLETE" / "MINIMIZE".
MAX_TAG_VAL_LENGTH == 8

\* Longest text a user attribute holds in SpecLen.
MaxTextLen == 10

\* Trials of the study.
NumTrials == 2

\* ------------------------------------------------------------ Python values

PyNone == [type |-> "NoneType", v |-> 0]

PyStr(s) == [type |-> "str", v |-> s]

PyInt(n) == [type |-> "int", v |-> n]

PyBool(b) == [type |-> "bool", v |-> b]

PyFloat(n) == [type |-> "float", v |-> n]

\* float("nan"), kept apart from the floats that are numbers.
NaN == [type |-> "nan", v |-> 0]

\* A datetime or a distribution: an object known by its text.  Both classes
\* are defined outside this file; no text of theirs holds a hyphen here.
PyObject(cls, text) == [type |-> cls, v |-> text]

TrialState(name) == [type |-> "TrialState", v |-> name]

StudyDirection(name) == [type |-> "StudyDirection", v |-> name]

Digits == <<"0", "1", "2", "3", "4", "5", "6", "7", "8", "9">>

RECURSIVE IntText(_)
IntText(n) ==
  IF n < 10 THEN <<Digits[n + 1]>>
  ELSE IntText(n \div 10) \o <<Digits[(n % 10) + 1]>>

TrialStateQualifier == <<"T", "r", "i", "a", "l", "S", "t", "a", "t", "e">>

StudyDirectionQualifier ==
  <<"S", "t", "u", "d", "y", "D", "i", "r", "e", "c", "t", "i", "o", "n">>

\* str(value): the text of a Python value.
Str(val) ==
  CASE val.type = "str" -> val.v
    [] val.type = "int" -> IntText(val.v)
    [] val.type = "bool" ->
         IF val.v THEN <<"T", "r", "u", "e">> ELSE <<"F", "a", "l", "s", "e">>
    [] val.type = "NoneType" -> <<"N", "o", "n", "e">>
    [] val.type = "float" -> IntText(val.v) \o <<".", "0">>
    [] val.type = "nan" -> <<"n", "a", "n">>
    [] val.type \in {"datetime", "distribution"} -> val.v
    [] val.type = "TrialState" -> TrialStateQualifier \o <<".">> \o val.v
    [] val.type = "StudyDirection" -> StudyDirectionQualifier \o <<".">> \o val.v

\* text.split(sep)[-1]: what follows the last separator.
RECURSIVE SplitLast(_, _)
SplitLast(s, sep) ==
  IF s = <<>> THEN <<>>
  ELSE IF s[Len(s)] = sep THEN <<>>
  ELSE SplitLast(SubSeq(s, 1, Len(s) - 1), sep) \o <<s[Len(s)]>>

\* ------------------------------------------------------- textwrap.shorten

IsSpace(c) == c = " "

\* The maximal runs of whitespace and of non-whitespace of a text, in order.
RECURSIVE SplitRuns(_)
SplitRuns(s) ==
  IF s = <<>> THEN <<>>
  ELSE LET rest == SplitRuns(Tail(s))
       IN IF rest # <<>> /\ IsSpace(Head(rest)[1]) = IsSpace(Head(s))
          THEN <<(<<Head(s)>> \o Head(rest))>> \o Tail(rest)
          ELSE <<(<<Head(s)>>)>> \o rest

IsBlank(chunk) == \A i \in 1..Len(chunk) : IsSpace(chunk[i])

\* text.strip().split(): the words of a text.
Words(s) == SelectSeq(SplitRuns(s), LAMBDA r : ~IsBlank(r))

RECURSIVE JoinSpace(_)
JoinSpace(ws) ==
  IF ws = <<>> THEN <<>>
  ELSE IF Len(ws) = 1 THEN ws[1]
  ELSE ws[1] \o <<" ">> \o JoinSpace(Tail(ws))

RECURSIVE Flatten(_)
Flatten(chunks) ==
  IF chunks = <<>> THEN <<>> ELSE Head(chunks) \o Flatten(Tail(chunks))

placeholder == <<" ", "[", ".", ".", ".", "]">>

RECURSIVE LStrip(_)
LStrip(s) ==
  IF s # <<>> /\ IsSpace(Head(s)) THEN LStrip(Tail(s)) ELSE s

\* TextWrapper._wrap_chunks, the inner loop: chunks are taken while they fit.
RECURSIVE TakeFitting(_, _, _, _)
TakeFitting(chunks, cur_line, cur_len, width) ==
  IF chunks # <<>> /\ cur_len + Len(Head(chunks)) <= width
  THEN TakeFitting(Tail(chunks), Append(cur_line, Head(chunks)),
                   cur_len + Len(Head(chunks)), width)
  ELSE [cur_line |-> cur_line, cur_len |-> cur_len, chunks |-> chunks]

\* TextWrapper._wrap_chunks with max_lines = 1, the line that does not hold
\* the whole text: chunks are dropped from its end until the placeholder fits.
RECURSIVE DropUntilPlaceholderFits(_, _, _)
DropUntilPlaceholderFits(cur_line, cur_len, width) ==
  IF cur_line = <<>> THEN LStrip(placeholder)
  ELSE LET last == cur_line[Len(cur_line)]
       IN IF ~IsBlank(last) /\ cur_len + Len(placeholder) <= width
          THEN Flatten(cur_line) \o placeholder
          ELSE DropUntilPlaceholderFits(SubSeq(cur_line, 1, Len(cur_line) - 1),
                                        cur_len - Len(last), width)

\* TextWrapper(width, max_lines=1).fill(text) for a text with at most one
\* line (break_long_words and drop_whitespace are the defaults, True).
WrapOneLine(text, width) ==
  LET taken == TakeFitting(SplitRuns(text), <<>>, 0, width)
      \* _handle_long_word: the chunk too long for any line is broken
      long == taken.chunks # <<>> /\ Len(Head(taken.chunks)) > width
      space_left == width - taken.cur_len
      line1 == IF long
               THEN Append(taken.cur_line, SubSeq(Head(taken.chunks), 1, space_left))
               ELSE taken.cur_line
      chunks1 == IF long
                 THEN <<SubSeq(Head(taken.chunks), space_left + 1,
                               Len(Head(taken.chunks)))>> \o Tail(taken.chunks)
                 ELSE taken.chunks
      \* a last chunk that is all whitespace is dropped
      dropLast == line1 # <<>> /\ IsBlank(line1[Len(line1)])
      line2 == IF dropLast THEN SubSeq(line1, 1, Len(line1) - 1) ELSE line1
      len2 == Len(Flatten(line2))
      whole == /\ \/ chunks1 = <<>>
                  \/ Len(chunks1) = 1 /\ IsBlank(chunks1[1])
               /\ len2 <= width
  IN IF line2 = <<>> THEN <<>>
     ELSE IF whole THEN Flatten(line2)
     ELSE DropUntilPlaceholderFits(line2, len2, width)

\* textwrap.shorten(text, width): whitespace is collapsed, then the text is
\* cut at a word boundary and the placeholder appended.
shorten(text, width) == WrapOneLine(JoinSpace(Words(text)), width)

\* --------------------------------------------------------------- dictionaries

EmptyDict == [k \in {} |-> PyNone]

\* a.update(b)
Update(a, b) ==
  [k \in DOMAIN a \cup DOMAIN b |-> IF k \in DOMAIN b THEN b[k] ELSE a[k]]

\* d.get(key)
Get(d, key) == IF key \in DOMAIN d THEN d[key] ELSE PyNone

\* ------------------------------------------------------------------- tags

RUN_ID_ATTRIBUTE_KEY == "mlflow_run_id"

\* TrialState.is_finished(): every state but RUNNING and WAITING.
is_finished(state) == state.v \notin {<<"R", "U", "N", "N", "I", "N", "G">>,
                                      <<"W", "A", "I", "T", "I", "N", "G">>}

\* tags["number"], tags["datetime_start"], tags["datetime_complete"]
NumberAndDatetimeTags(trial) ==
  [k \in {"number", "datetime_start", "datetime_complete"} |->
     CASE k = "number" -> PyStr(Str(PyInt(trial.number)))
       [] k = "datetime_start" -> PyStr(Str(trial.datetime_start))
       [] k = "datetime_complete" -> PyStr(Str(trial.datetime_complete))]

StateTagAlways(trial) ==
  IF trial.state.type = "TrialState"
  THEN [k \in {"state"} |-> PyStr(SplitLast(Str(trial.state), "."))]
  ELSE EmptyDict

\* tags["state"]: written for a finished TrialState only, prefix removed.
StateTag(trial) ==
  IF trial.state.type = "TrialState" /\ is_finished(trial.state)
  THEN [k \in {"state"} |-> PyStr(SplitLast(Str(trial.state), "."))]
  ELSE EmptyDict

\* tags["direction"]: written for a StudyDirection only, prefix removed.
DirectionTag(study_) ==
  IF study_.direction.type = "StudyDirection"
  THEN [k \in {"direction"} |-> PyStr(SplitLast(Str(study_.direction), "."))]
  ELSE EmptyDict

NumberTagOffByOne(trial, study_) ==
  Update(Update([NumberAndDatetimeTags(trial) EXCEPT
                   !["number"] = PyStr(Str(PyInt(trial.number + 1)))],
                StateTag(trial)),
         DirectionTag(study_))

\* The tags set before any attribute mapping is merged in.
BuiltinTags(trial, study_) ==
  Update(Update(NumberAndDatetimeTags(trial), StateTag(trial)), DirectionTag(study_))

\* {(k + "_distribution"): str(v) for (k, v) in trial.distributions.items()}
DistributionTags(trial) ==
  [kk \in {k \o "_distribution" : k \in DOMAIN trial.distributions} |->
     PyStr(Str(trial.distributions[
       CHOOSE k \in DOMAIN trial.distributions : k \o "_distribution" = kk]))]

MergedTagsStudyFirst(trial, study_, tag_study_user_attrs) ==
  LET builtin == BuiltinTags(trial, study_)
      with_study == IF tag_study_user_attrs
                    THEN Update(builtin, study_.user_attrs) ELSE builtin
  IN Update(Update(with_study, trial.user_attrs), DistributionTags(trial))

\* The tags after the three updates: the trial's user attributes, the
\* distributions, and the study's user attributes when the flag is set.
MergedTags(trial, study_, tag_study_user_attrs) ==
  LET with_user == Update(BuiltinTags(trial, study_), trial.user_attrs)
      with_dist == Update(with_user, DistributionTags(trial))
  IN IF tag_study_user_attrs THEN Update(with_dist, study_.user_attrs) ELSE with_dist

NoLimit(value) == value

\* One round of the loop over tags.items(): the entry is replaced only when
\* its text is longer than the maximum; otherwise it stays the object it was.
LimitTagValue(value) ==
  LET text == Str(value)
  IN IF Len(text) > MAX_TAG_VAL_LENGTH
     THEN PyStr(shorten(text, MAX_TAG_VAL_LENGTH))
     ELSE value

\* The mapping _set_tags hands to mlflow.set_tags.
_set_tags(trial, study_, tag_study_user_attrs) ==
  LET tags == MergedTags(trial, study_, tag_study_user_attrs)
  IN [k \in DOMAIN tags |-> LimitTagValue(tags[k])]

\* ------------------------------------------------------------------ metric

MetricValueFalsy(value) ==
  IF value # PyNone /\ value # PyFloat(0) THEN value ELSE NaN

\* trial_value = value if value is not None else float("nan")
MetricValue(value) == IF value # PyNone THEN value ELSE NaN

\* ----------------------------------------------------------- MLflow client

\* mlflow.set_tracking_uri(uri)
set_tracking_uri(ml, uri) == [ml EXCEPT !.tracking_uri = uri]

\* mlflow.set_experiment(name): the experiment is created when it does not
\* exist, and becomes the one new runs are created in.
set_experiment(ml, name) ==
  [ml EXCEPT !.experiments = @ \cup {name}, !.active_experiment = name]

NewRun(ml, run_name, parent) ==
  [run_id |-> IntText(Len(ml.runs) + 1), name |-> run_name,
   experiment |-> ml.active_experiment, parent |-> parent, status |-> "RUNNING",
   metrics |-> <<>>, params |-> <<>>, tags |-> <<>>]

RunOfId(ml, run_id) ==
  CHOOSE r \in 1..Len(ml.runs) : ml.runs[r].run_id = run_id.v

\* mlflow.start_run(run_id, run_name, nested) on the stack `key`: raises when a
\* run is active and nested is not set; resumes the run of run_id when one is
\* given, creates a run otherwise; the run becomes the active one.
start_run(ml, key, run_id, run_name, nested) ==
  LET stack == ml.active_run_stack[key]
  IN IF stack # <<>> /\ ~nested
     THEN [raised |-> TRUE, run |-> 0, ml |-> ml]
     ELSE IF run_id # PyNone
     THEN LET r == RunOfId(ml, run_id)
          IN [raised |-> FALSE, run |-> r,
              ml |-> [ml EXCEPT !.runs[r].status = "RUNNING",
                                !.active_run_stack[key] = Append(stack, r)]]
     ELSE LET r == Len(ml.runs) + 1
              parent == IF stack # <<>> THEN stack[Len(stack)] ELSE 0
          IN [raised |-> FALSE, run |-> r,
              ml |-> [ml EXCEPT !.runs = Append(@, NewRun(ml, run_name, parent)),
                                !.active_run_stack[key] = Append(stack, r)]]

\* mlflow.end_run(status): the run on top of the stack is popped and ended.
end_run(ml, key, status) ==
  LET stack == ml.active_run_stack[key]
  IN IF stack = <<>> THEN ml
     ELSE [ml EXCEPT !.runs[stack[Len(stack)]].status = status,
                     !.active_run_stack[key] = SubSeq(stack, 1, Len(stack) - 1)]

ExitLeavesRunOpen(ml, key, exc) == ml

\* ActiveRun.__exit__ suppresses no exception: what is raised in a `with`
\* block leaves it.
Propagates(exc) == exc # "none"

\* ActiveRun.__exit__, the end of a `with mlflow.start_run(...)` block: the
\* run is ended, FAILED when an exception leaves the block.
ActiveRunExit(ml, key, exc) ==
  end_run(ml, key, IF exc = "none" THEN "FINISHED" ELSE "FAILED")

\* The run the fluent log/set calls write to: the active run, started when
\* there is none.
WithActiveRun(ml, key) ==
  IF ml.active_run_stack[key] # <<>> THEN ml
  ELSE start_run(ml, key, PyNone, <<>>, FALSE).ml

ActiveRun(ml, key) ==
  LET stack == ml.active_run_stack[key] IN stack[Len(stack)]

\* mlflow.log_metric(key, value), called by `by`.
log_metric(ml, key, name, value, by) ==
  LET m == WithActiveRun(ml, key)
  IN [m EXCEPT !.runs[ActiveRun(m, key)].metrics =
         Append(@, [key |-> name, value |-> value, by |-> by])]

\* mlflow.log_params(params), called by `by`.
log_params(ml, key, params, by) ==
  LET m == WithActiveRun(ml, key)
  IN [m EXCEPT !.runs[ActiveRun(m, key)].params =
         Append(@, [params |-> params, by |-> by])]

\* mlflow.set_tags(tags), called by `by`.
set_tags(ml, key, tags, by) ==
  LET m == WithActiveRun(ml, key)
  IN [m EXCEPT !.runs[ActiveRun(m, key)].tags =
         Append(@, [tags |-> tags, by |-> by])]

\* ------------------------------------------------------------------- state

VARIABLES
  callback,     \* the MLflowCallback: _tracking_uri, _metric_name, _nest_trials, _tag_study_user_attrs
  study,        \* study_name, direction, user_attrs
  trials,       \* trial -> number, state, value, params, distributions, attributes
  mlflow,       \* the client's module state: tracking_uri, experiments, runs, run stacks
  n_jobs,       \* how many trials the optimization loop runs at a time
  stack_scope,  \* whether the client keeps one run stack per "process" or per "thread"
  pc,           \* trial -> where its objective / callback invocation stands
  frame,        \* trial -> the call in progress: the run of its `with`, the exception in flight
  hist          \* trial -> what its wrapper and record calls did

vars == <<callback, study, trials, mlflow, n_jobs, stack_scope, pc, frame, hist>>

Trials == 1..NumTrials

\* The run stack a trial's calls use: the loop runs the trials on the calling
\* thread when n_jobs = 1, on worker threads otherwise.
Key(t) == IF stack_scope = "thread" /\ n_jobs > 1 THEN t ELSE 0

RUNNING == TrialState(<<"R", "U", "N", "N", "I", "N", "G">>)

COMPLETE == TrialState(<<"C", "O", "M", "P", "L", "E", "T", "E">>)

PRUNED == TrialState(<<"P", "R", "U", "N", "E", "D">>)

FAIL == TrialState(<<"F", "A", "I", "L">>)

WAITING == TrialState(<<"W", "A", "I", "T", "I", "N", "G">>)

MINIMIZE == StudyDirection(<<"M", "I", "N", "I", "M", "I", "Z", "E">>)

MAXIMIZE == StudyDirection(<<"M", "A", "X", "I", "M", "I", "Z", "E">>)

SomeDatetime == PyObject("datetime", <<"1", "2", ":", "3", "0">>)

ShortDistribution == PyObject("distribution", <<"U", "(", "0", ",", "1", ")">>)

LongDistribution ==
  PyObject("distribution", <<"U", "(", "l", "o", "w", "=", "0", ",", " ", "h", "i", "=", "1", ")">>)

\* How an objective ends: the state and value the study records, and whether
\* the objective raised (TrialPruned here; any other exception leaves the
\* wrapper the same way).
ObjectiveOutcomes ==
  { [state |-> COMPLETE, value |-> PyFloat(0), raises |-> FALSE],
    [state |-> COMPLETE, value |-> PyFloat(4), raises |-> FALSE],
    [state |-> PRUNED, value |-> PyNone, raises |-> TRUE] }

NoFrame == [run |-> 0, exc |-> "none", outcome |-> CHOOSE o \in ObjectiveOutcomes : TRUE]

NoHist ==
  [w_run |-> 0, w_result |-> "none", r_run |-> 0, r_result |-> "none",
   r_runs_before |-> 0, r_runs_after |-> 0]

\* A trial the study has just asked for.
FreshTrial(t) ==
  [number |-> t - 1, state |-> RUNNING, value |-> PyNone,
   params |-> [k \in {"x"} |-> PyFloat(t)],
   distributions |-> [k \in {"x"} |-> ShortDistribution],
   user_attrs |-> EmptyDict, system_attrs |-> EmptyDict,
   datetime_start |-> SomeDatetime, datetime_complete |-> PyNone]

MetricName == <<"v", "a", "l", "u", "e">>

TrackingUri == <<"f", "i", "l", "e", ":", "r">>

StudyName == <<"s", "1">>

\* The client before the callback is used; with `parent`, the caller has a
\* run open (the run trials are nested under).
FreshClient(parent) ==
  LET ml0 == [tracking_uri |-> PyNone, experiments |-> {<<"D">>},
              active_experiment |-> <<"D">>, runs |-> <<>>,
              active_run_stack |-> [k \in 0..NumTrials |-> <<>>]]
  IN IF parent THEN start_run(ml0, 0, PyNone, <<"p">>, FALSE).ml ELSE ml0

\* --------------------------------------------------------- MLflowCallback

\* _initialize_experiment(study)
_initialize_experiment(ml, cb, study_) ==
  LET ml1 == IF cb._tracking_uri # PyNone
             THEN set_tracking_uri(ml, cb._tracking_uri) ELSE ml
  IN set_experiment(ml1, study_.study_name)

StashNothing(system_attrs, run) == system_attrs

\* trial.set_system_attr(RUN_ID_ATTRIBUTE_KEY, run.info.run_id)
WrapperStash(system_attrs, run) ==
  Update(system_attrs, [k \in {RUN_ID_ATTRIBUTE_KEY} |-> PyStr(run.run_id)])

IgnoreStash(trial) == PyNone

\* run_id=trial.system_attrs.get(RUN_ID_ATTRIBUTE_KEY)
RecordRunId(trial) == Get(trial.system_attrs, RUN_ID_ATTRIBUTE_KEY)

\* run_name=str(trial.number)
RunName(trial) == Str(PyInt(trial.number))

\* Whether another trial may start: trials are asked for in number order, and
\* at most n_jobs are between their start and the end of their callback.
CanStart(t) ==
  /\ \A u \in Trials : u < t => pc[u] # "new"
  /\ Cardinality({u \in Trials \ {t} : pc[u] \notin {"new", "done"}}) < n_jobs

\* The study records how the objective ended.
Told(trial, outcome) ==
  [trial EXCEPT !.state = outcome.state, !.value = outcome.value,
                !.datetime_complete = SomeDatetime]

\* wrapper(trial), up to the call of func: the experiment is selected, the
\* run opened and its identifier stashed on the trial.
WrapperEnter(t) ==
  /\ pc[t] = "new"
  /\ CanStart(t)
  /\ LET ml1 == _initialize_experiment(mlflow, callback, study)
         res == start_run(ml1, Key(t), PyNone, RunName(trials[t]),
                          callback._nest_trials)
     IN /\ mlflow' = res.ml
        /\ IF res.raised
           THEN /\ pc' = [pc EXCEPT ![t] = "finished"]
                /\ trials' = [trials EXCEPT ![t] =
                     Told(@, [state |-> FAIL, value |-> PyNone, raises |-> TRUE])]
                /\ hist' = [hist EXCEPT ![t].w_result = "raised"]
                /\ frame' = frame
           ELSE /\ pc' = [pc EXCEPT ![t] = "body"]
                /\ trials' = [trials EXCEPT ![t].system_attrs =
                     WrapperStash(@, res.ml.runs[res.run])]
                /\ hist' = [hist EXCEPT ![t].w_run = res.run]
                /\ frame' = [frame EXCEPT ![t] = [NoFrame EXCEPT !.run = res.run]]
  /\ UNCHANGED <<callback, study, n_jobs, stack_scope>>

\* func(trial) inside the wrapper's run: the objective may log to the active
\* run, then returns or raises.
WrapperBody(t) ==
  /\ pc[t] = "body"
  /\ \E logs \in BOOLEAN, outcome \in ObjectiveOutcomes :
       /\ mlflow' = IF logs
                    THEN log_metric(mlflow, Key(t), <<"b">>, PyFloat(1),
                                    [trial |-> t, via |-> "objective"])
                    ELSE mlflow
       /\ frame' = [frame EXCEPT ![t].outcome = outcome,
                                 ![t].exc = IF outcome.raises THEN "objective" ELSE "none"]
  /\ pc' = [pc EXCEPT ![t] = "w_exit"]
  /\ UNCHANGED <<callback, study, trials, n_jobs, stack_scope, hist>>

\* The wrapper's `with` block is left: the run is ended, the objective's
\* exception goes on to the study, which records the outcome.
WrapperExit(t) ==
  /\ pc[t] = "w_exit"
  /\ mlflow' = ActiveRunExit(mlflow, Key(t), frame[t].exc)
  /\ hist' = [hist EXCEPT ![t].w_result =
                IF Propagates(frame[t].exc) THEN "raised" ELSE "returned"]
  /\ trials' = [trials EXCEPT ![t] = Told(@, frame[t].outcome)]
  /\ frame' = [frame EXCEPT ![t] = NoFrame]
  /\ pc' = [pc EXCEPT ![t] = "finished"]
  /\ UNCHANGED <<callback, study, n_jobs, stack_scope>>

\* An objective that is not decorated: nothing is opened or stashed.
RunObjective(t) ==
  /\ pc[t] = "new"
  /\ CanStart(t)
  /\ \E outcome \in ObjectiveOutcomes :
       trials' = [trials EXCEPT ![t] = Told(@, outcome)]
  /\ pc' = [pc EXCEPT ![t] = "finished"]
  /\ UNCHANGED <<callback, study, mlflow, n_jobs, stack_scope, frame, hist>>

\* __call__(study, trial), up to the body of its `with`: the experiment is
\* selected and the run opened, the stashed one when there is one.
RecordEnter(t) ==
  /\ \/ pc[t] = "finished"
     \/ pc[t] = "new" /\ CanStart(t)
  /\ LET ml1 == _initialize_experiment(mlflow, callback, study)
         res == start_run(ml1, Key(t), RecordRunId(trials[t]), RunName(trials[t]),
                          callback._nest_trials)
     IN /\ mlflow' = res.ml
        /\ IF res.raised
           THEN /\ pc' = [pc EXCEPT ![t] = "done"]
                /\ hist' = [hist EXCEPT ![t].r_result = "raised",
                                        ![t].r_runs_before = Len(mlflow.runs),
                                        ![t].r_runs_after = Len(res.ml.runs)]
                /\ frame' = frame
           ELSE /\ pc' = [pc EXCEPT ![t] = "r_metric"]
                /\ hist' = [hist EXCEPT ![t].r_run = res.run,
                                        ![t].r_runs_before = Len(mlflow.runs)]
                /\ frame' = [frame EXCEPT ![t] = [NoFrame EXCEPT !.run = res.run]]
  /\ UNCHANGED <<callback, study, trials, n_jobs, stack_scope>>

\* _log_metric(trial.value); the client may raise.
RecordLogMetric(t) ==
  /\ pc[t] = "r_metric"
  /\ \E raises \in BOOLEAN :
       IF raises
       THEN /\ frame' = [frame EXCEPT ![t].exc = "client"]
            /\ pc' = [pc EXCEPT ![t] = "r_exit"]
            /\ mlflow' = mlflow
       ELSE /\ mlflow' = log_metric(mlflow, Key(t), callback._metric_name,
                                    MetricValue(trials[t].value),
                                    [trial |-> t, via |-> "record"])
            /\ pc' = [pc EXCEPT ![t] = "r_params"]
            /\ frame' = frame
  /\ UNCHANGED <<callback, study, trials, n_jobs, stack_scope, hist>>

\* _log_params(trial); the client may raise.
RecordLogParams(t) ==
  /\ pc[t] = "r_params"
  /\ \E raises \in BOOLEAN :
       IF raises
       THEN /\ frame' = [frame EXCEPT ![t].exc = "client"]
            /\ pc' = [pc EXCEPT ![t] = "r_exit"]
            /\ mlflow' = mlflow
       ELSE /\ mlflow' = log_params(mlflow, Key(t), trials[t].params,
                                    [trial |-> t, via |-> "record"])
            /\ pc' = [pc EXCEPT ![t] = "r_tags"]
            /\ frame' = frame
  /\ UNCHANGED <<callback, study, trials, n_jobs, stack_scope, hist>>

\* _set_tags(trial, study); the client may raise.
RecordSetTags(t) ==
  /\ pc[t] = "r_tags"
  /\ \E raises \in BOOLEAN :
       IF raises
       THEN /\ frame' = [frame EXCEPT ![t].exc = "client"]
            /\ mlflow' = mlflow
       ELSE /\ mlflow' = set_tags(mlflow, Key(t),
                                  _set_tags(trials[t], study,
                                            callback._tag_study_user_attrs),
                                  [trial |-> t, via |-> "record"])
            /\ frame' = frame
  /\ pc' = [pc EXCEPT ![t] = "r_exit"]
  /\ UNCHANGED <<callback, study, trials, n_jobs, stack_scope, hist>>

\* The `with` block of __call__ is left: the run is ended and an exception
\* of the client goes on to the caller.
RecordExit(t) ==
  /\ pc[t] = "r_exit"
  /\ mlflow' = ActiveRunExit(mlflow, Key(t), frame[t].exc)
  /\ hist' = [hist EXCEPT ![t].r_result =
                IF Propagates(frame[t].exc) THEN "raised" ELSE "returned",
              ![t].r_runs_after = Len(mlflow.runs)]
  /\ frame' = [frame EXCEPT ![t] = NoFrame]
  /\ pc' = [pc EXCEPT ![t] = "done"]
  /\ UNCHANGED <<callback, study, trials, n_jobs, stack_scope>>

\* ------------------------------------------------------------ specifications

Callbacks(uris, nests, flags) ==
  [_tracking_uri : uris, _metric_name : {MetricName}, _nest_trials : nests,
   _tag_study_user_attrs : flags]

InitControl ==
  /\ pc = [t \in Trials |-> "new"]
  /\ frame = [t \in Trials |-> NoFrame]
  /\ hist = [t \in Trials |-> NoHist]

\* One trial at a time (study.optimize with n_jobs = 1).
Init ==
  /\ callback \in Callbacks({PyStr(TrackingUri)}, BOOLEAN, {FALSE})
  /\ study = [study_name |-> StudyName, direction |-> MINIMIZE,
              user_attrs |-> EmptyDict]
  /\ trials = [t \in Trials |-> FreshTrial(t)]
  /\ \E parent \in BOOLEAN : mlflow = FreshClient(parent)
  /\ n_jobs = 1
  /\ stack_scope = "process"
  /\ InitControl

Next ==
  \E t \in Trials :
    \/ WrapperEnter(t)
    \/ WrapperBody(t)
    \/ WrapperExit(t)
    \/ RunObjective(t)
    \/ RecordEnter(t)
    \/ RecordLogMetric(t)
    \/ RecordLogParams(t)
    \/ RecordSetTags(t)
    \/ RecordExit(t)

Spec == Init /\ [][Next]_vars

\* Two trials at a time (study.optimize with n_jobs = 2); the client keeps its
\* run stack per process or per thread, depending on its version.
InitConc ==
  /\ callback \in Callbacks({PyNone}, BOOLEAN, {FALSE})
  /\ study = [study_name |-> StudyName, direction |-> MINIMIZE,
              user_attrs |-> EmptyDict]
  /\ trials = [t \in Trials |-> FreshTrial(t)]
  /\ mlflow = FreshClient(FALSE)
  /\ n_jobs = 2
  /\ stack_scope \in {"process", "thread"}
  /\ InitControl

SpecConc == InitConc /\ [][Next]_vars

\* The callback called with one trial whose attributes, distributions and
\* state range over the cases of the tag mapping.
AttrKeys == {"number", "state", "note", "x_distribution"}

LongText == <<"a", "a", "a", " ", "a", "a", "a", " ", "a", "a", "a", "a">>

TrialAttrValues == {PyStr(<<"a">>), PyStr(LongText), PyInt(7), PyBool(TRUE)}

StudyAttrValues == {PyStr(<<"b">>), PyInt(1234567890)}

\* The mappings with at most one key.
SmallDicts(keys, values) ==
  {EmptyDict} \cup UNION {[{k} -> values] : k \in keys}

Alphabet == {"a", " "}

\* Every text of at most MaxTextLen characters.
AllTexts == UNION {[1..n -> Alphabet] : n \in 0..MaxTextLen}

\* The finished trials and the unfinished ones a callback can be handed.
FrozenStates ==
  { [state |-> RUNNING, value |-> PyNone], [state |-> WAITING, value |-> PyNone],
    [state |-> COMPLETE, value |-> PyFloat(4)], [state |-> PRUNED, value |-> PyNone],
    [state |-> FAIL, value |-> PyNone] }

FrozenTrial(t, sv, user_attrs, distributions) ==
  [FreshTrial(t) EXCEPT !.state = sv.state, !.value = sv.value,
                        !.user_attrs = user_attrs, !.distributions = distributions]

Distributions ==
  {EmptyDict, [k \in {"x"} |-> ShortDistribution], [k \in {"x"} |-> LongDistribution]}

InitTags ==
  /\ callback \in Callbacks({PyNone}, {FALSE}, BOOLEAN)
  /\ mlflow = FreshClient(FALSE)
  /\ n_jobs = 1
  /\ stack_scope = "process"
  /\ InitControl
  /\ \/ \* key collisions between the sources
        /\ study \in [study_name : {StudyName}, direction : {MINIMIZE, MAXIMIZE},
                      user_attrs : SmallDicts(AttrKeys \cup {"direction"}, StudyAttrValues)]
        /\ \E sv \in FrozenStates, ua \in SmallDicts(AttrKeys, TrialAttrValues),
              d \in Distributions :
             trials = [t \in Trials |->
                         IF t = 1 THEN FrozenTrial(t, sv, ua, d) ELSE FreshTrial(t)]
     \/ \* one attribute over every text
        /\ study = [study_name |-> StudyName, direction |-> MINIMIZE,
                    user_attrs |-> EmptyDict]
        /\ \E text \in AllTexts :
             trials = [t \in Trials |->
                         IF t = 1
                         THEN FrozenTrial(t, [state |-> COMPLETE, value |-> PyFloat(4)],
                                          [k \in {"note"} |-> PyStr(text)],
                                          [k \in {"x"} |-> ShortDistribution])
                         ELSE FreshTrial(t)]

NextTags ==
  \/ RecordEnter(1)
  \/ RecordLogMetric(1)
  \/ RecordLogParams(1)
  \/ RecordSetTags(1)
  \/ RecordExit(1)

SpecTags == InitTags /\ [][NextTags]_vars

\* ------------------------------------------------------------- observations

RecordBy(t) == [trial |-> t, via |-> "record"]

Runs == 1..Len(mlflow.runs)

\* The values record has logged for trial t, as <<run, position>> -> entry.
MetricWrites(t) ==
  {w \in UNION {{<<r, i>> : i \in 1..Len(mlflow.runs[r].metrics)} : r \in Runs} :
     mlflow.runs[w[1]].metrics[w[2]].by = RecordBy(t)}

\* The mappings record has handed to set_tags for trial t.
TagWrites(t) ==
  UNION {{mlflow.runs[r].tags[i].tags :
            i \in {j \in 1..Len(mlflow.runs[r].tags) :
                     mlflow.runs[r].tags[j].by = RecordBy(t)}} : r \in Runs}

Flag == callback._tag_study_user_attrs

\* The identifier stashed on trial t, read without the callback's code.
Stash(t) ==
  IF "mlflow_run_id" \in DOMAIN trials[t].system_attrs
  THEN trials[t].system_attrs["mlflow_run_id"] ELSE PyNone

InRecord(t) == pc[t] \in {"r_metric", "r_params", "r_tags", "r_exit"}

OnSomeStack(r) ==
  \E k \in DOMAIN mlflow.active_run_stack :
    \E i \in 1..Len(mlflow.active_run_stack[k]) : mlflow.active_run_stack[k][i] = r

Closed(r) == mlflow.runs[r].status # "RUNNING" /\ ~OnSomeStack(r)

\* ------------------------------------------------------------------ claims

\* C1: a call of record that opens its run creates exactly one new run in
\* the backend when the trial holds no stashed run-id, and none when one is
\* stashed: it then reopens the run with that identifier.  No call of record
\* creates more than one run, and one whose start_run raises creates none.
C1_OneRunPerRecord ==
  \A t \in Trials :
    LET now == IF InRecord(t) THEN Len(mlflow.runs) ELSE hist[t].r_runs_after
        created == now - hist[t].r_runs_before
    IN (InRecord(t) \/ hist[t].r_result # "none") =>
         IF hist[t].r_run = 0 THEN created = 0
         ELSE IF Stash(t) = PyNone
         THEN created = 1 /\ hist[t].r_run = now
         ELSE /\ created = 0
              /\ mlflow.runs[hist[t].r_run].run_id = Stash(t).v

C1_Witness ==
  \E t, u \in Trials :
    /\ hist[t].r_result = "returned" /\ Stash(t) # PyNone
    /\ hist[t].r_runs_after = hist[t].r_runs_before
    /\ hist[u].r_result = "returned" /\ Stash(u) = PyNone
    /\ hist[u].r_runs_after = hist[u].r_runs_before + 1

\* C2: while the objective body of a decorated trial executes, the trial's
\* system attributes hold, under "mlflow_run_id", the identifier of the run
\* the wrapper has just opened; a later record call for the trial opens the
\* run with that identifier.
C2_StashBeforeBody ==
  \A t \in Trials :
    /\ pc[t] = "body" =>
         /\ hist[t].w_run \in Runs
         /\ Stash(t) = PyStr(mlflow.runs[hist[t].w_run].run_id)
         /\ mlflow.runs[hist[t].w_run].name = IntText(trials[t].number)
         /\ mlflow.runs[hist[t].w_run].status = "RUNNING"
    /\ (hist[t].w_run # 0 /\ hist[t].r_run # 0) =>
         /\ hist[t].r_run = hist[t].w_run
         /\ Stash(t) = PyStr(mlflow.runs[hist[t].r_run].run_id)

C2_Witness ==
  \E t \in Trials :
    /\ hist[t].w_run # 0
    /\ hist[t].r_run = hist[t].w_run
    /\ hist[t].r_result = "returned"

\* C3: when the wrapper or record has exited, the run it opened is closed
\* (ended, and on no run stack), whether the objective returned or raised and
\* whether or not a client write raised; the exception reaches the caller
\* (record raised exactly when not all of its writes were made, the wrapper
\* exactly when the objective raised); between calls no run but the caller's
\* own parent run is open.
C3_RunClosedOnExit ==
  /\ \A t \in Trials :
       /\ (pc[t] = "finished" /\ hist[t].w_run # 0) =>
            /\ Closed(hist[t].w_run)
            /\ hist[t].w_result = "raised" <=> trials[t].state = PRUNED
            /\ hist[t].w_result = "returned" <=> trials[t].state = COMPLETE
       /\ (pc[t] = "done" /\ hist[t].r_run # 0) =>
            /\ Closed(hist[t].r_run)
            /\ hist[t].r_result \in {"returned", "raised"}
            /\ hist[t].r_result = "returned" <=> TagWrites(t) # {}
            /\ hist[t].r_result = "raised" <=>
                 mlflow.runs[hist[t].r_run].status = "FAILED"
  /\ (\A t \in Trials : pc[t] \in {"new", "finished", "done"}) =>
       \A r \in Runs : mlflow.runs[r].name # <<"p">> => Closed(r)

C3_Witness ==
  \E t, u \in Trials :
    /\ pc[t] = "done" /\ hist[t].r_run # 0 /\ hist[t].r_result = "raised"
    /\ MetricWrites(t) # {} /\ TagWrites(t) = {}
    /\ Closed(hist[t].r_run)
    /\ pc[u] = "finished" /\ hist[u].w_run # 0 /\ hist[u].w_result = "raised"
    /\ Closed(hist[u].w_run)

\* C4: with trials run concurrently, every metric, parameter and tag write of
\* an invocation lands in a run opened for its own trial.
C4_WritesLandInOwnRun ==
  \A r \in Runs :
    LET own(by) == r \in {hist[by.trial].w_run, hist[by.trial].r_run}
    IN /\ \A i \in 1..Len(mlflow.runs[r].metrics) : own(mlflow.runs[r].metrics[i].by)
       /\ \A i \in 1..Len(mlflow.runs[r].params) : own(mlflow.runs[r].params[i].by)
       /\ \A i \in 1..Len(mlflow.runs[r].tags) : own(mlflow.runs[r].tags[i].by)

\* The sources of the tag mapping of trial t, in the order they are applied.
TagSources(t) ==
  <<BuiltinTags(trials[t], study), trials[t].user_attrs, DistributionTags(trials[t]),
    IF Flag THEN study.user_attrs ELSE EmptyDict>>

LastDefining(t, k) ==
  LET src == TagSources(t)
      i == CHOOSE j \in 1..4 :
             /\ k \in DOMAIN src[j]
             /\ \A h \in (j + 1)..4 : k \notin DOMAIN src[h]
  IN src[i][k]

\* A value as it is written: as it is when its text fits the maximum length,
\* shortened otherwise.
Written(v) ==
  IF Len(Str(v)) <= MAX_TAG_VAL_LENGTH THEN v
  ELSE PyStr(shorten(Str(v), MAX_TAG_VAL_LENGTH))

\* C5: the mapping record writes has exactly the keys of the built-in tags,
\* the trial's user attributes, the <param>_distribution entries and, when
\* tag_study_user_attrs is set, the study's user attributes; for every key
\* the value written is (the length-limited form of) the value of the last
\* of these sources, in this order, that defines the key.
C5_LastSourceWins ==
  \A t \in Trials : \A m \in TagWrites(t) :
    /\ DOMAIN m = UNION {DOMAIN TagSources(t)[j] : j \in 1..4}
    /\ \A k \in DOMAIN m : m[k] = Written(LastDefining(t, k))

C5_Witness ==
  \E m \in TagWrites(1) :
    /\ Flag
    /\ "x_distribution" \in DOMAIN study.user_attrs
    /\ "x" \in DOMAIN trials[1].distributions
    /\ m["x_distribution"] = study.user_attrs["x_distribution"]
    /\ m["x_distribution"] # PyStr(Str(trials[1].distributions["x"]))

NumberOverridden(t) ==
  \/ "number" \in DOMAIN trials[t].user_attrs
  \/ Flag /\ "number" \in DOMAIN study.user_attrs

\* C6 as stated: whatever the user attributes, the tag `number` written is
\* the trial number as text.
C6_NumberAlways ==
  \A t \in Trials : \A m \in TagWrites(t) :
    m["number"] = PyStr(IntText(trials[t].number))

\* C6 as amended: the tag `number` written is the trial number as text when
\* neither the trial's user attributes nor, with tag_study_user_attrs set,
\* the study's define a key `number`; when one does, its value is written.
C6_NumberUnlessOverridden ==
  \A t \in Trials : \A m \in TagWrites(t) :
    /\ ~NumberOverridden(t) => m["number"] = PyStr(IntText(trials[t].number))
    /\ NumberOverridden(t) =>
         m["number"] = Written(IF Flag /\ "number" \in DOMAIN study.user_attrs
                               THEN study.user_attrs["number"]
                               ELSE trials[t].user_attrs["number"])

C6_Witness ==
  \E m \in TagWrites(1) :
    /\ ~NumberOverridden(1)
    /\ trials[1].user_attrs # EmptyDict
    /\ Flag /\ study.user_attrs # EmptyDict
    /\ m["number"] = PyStr(<<"0">>)

StateOverridden(t) ==
  \/ "state" \in DOMAIN trials[t].user_attrs
  \/ Flag /\ "state" \in DOMAIN study.user_attrs

Finished(t) == trials[t].state \in {COMPLETE, FAIL, PRUNED}

\* C7 as stated: the mapping written has a `state` tag only for a finished
\* trial, its value the state's name; for an unfinished trial it has none.
C7_StateOnlyWhenFinished ==
  \A t \in Trials : \A m \in TagWrites(t) :
    /\ "state" \in DOMAIN m => Finished(t) /\ m["state"] = PyStr(trials[t].state.v)
    /\ ~Finished(t) => "state" \notin DOMAIN m

\* C7 as amended: the same, for a trial whose user attributes and, with
\* tag_study_user_attrs set, whose study's user attributes define no key
\* `state`, and for a finished trial the tag is then present; a user
\* attribute `state` is written as the tag whatever the trial's state.
C7_StateUnlessOverridden ==
  \A t \in Trials : \A m \in TagWrites(t) :
    /\ ~StateOverridden(t) =>
         /\ "state" \in DOMAIN m <=> Finished(t)
         /\ "state" \in DOMAIN m => m["state"] = PyStr(trials[t].state.v)
    /\ StateOverridden(t) =>
         /\ "state" \in DOMAIN m
         /\ m["state"] = Written(IF Flag /\ "state" \in DOMAIN study.user_attrs
                                 THEN study.user_attrs["state"]
                                 ELSE trials[t].user_attrs["state"])

C7_Witness ==
  \E m \in TagWrites(1) :
    /\ ~StateOverridden(1)
    /\ trials[1].state = PRUNED
    /\ m["state"] = PyStr(<<"P", "R", "U", "N", "E", "D">>)

\* C8: every value of the mapping record hands to set_tags is a text.
C8_ValuesAreText ==
  \A t \in Trials : \A m \in TagWrites(t) : \A k \in DOMAIN m : m[k].type = "str"

\* C9: every value of the mapping record hands to set_tags has a text of at
\* most MAX_TAG_VAL_LENGTH characters: a value whose text is longer is
\* replaced by a shorter text, a value within the maximum is handed over
\* unchanged.
C9_ValuesFit ==
  \A t \in Trials : \A m \in TagWrites(t) : \A k \in DOMAIN m :
    LET v == LastDefining(t, k)
    IN /\ Len(Str(m[k])) <= MAX_TAG_VAL_LENGTH
       /\ Len(Str(v)) <= MAX_TAG_VAL_LENGTH => m[k] = v
       /\ Len(Str(v)) > MAX_TAG_VAL_LENGTH =>
            m[k].type = "str" /\ Len(m[k].v) < Len(Str(v))

C9_Witness ==
  \E m \in TagWrites(1) :
    /\ "note" \in DOMAIN trials[1].user_attrs
    /\ Len(Str(trials[1].user_attrs["note"])) > MAX_TAG_VAL_LENGTH
    /\ Len(m["note"].v) > Len(placeholder)
    /\ SubSeq(m["note"].v, Len(m["note"].v) - 4, Len(m["note"].v)) = LStrip(placeholder)

\* C10: a call of record logs at most one metric, under the configured name,
\* and exactly one once its log_metric call has returned; the value logged is
\* NaN for a trial without a value and the trial's value otherwise; a trial
\* without a value makes no call fail.
C10_OneMetric ==
  \A t \in Trials :
    /\ Cardinality(MetricWrites(t)) <= 1
    /\ \A w \in MetricWrites(t) :
         LET e == mlflow.runs[w[1]].metrics[w[2]]
         IN /\ e.key = callback._metric_name
            /\ trials[t].value = PyNone => e.value = NaN
            /\ trials[t].value # PyNone => e.value = trials[t].value
    /\ (pc[t] \in {"r_params", "r_tags"} \/ hist[t].r_result = "returned")
         => Cardinality(MetricWrites(t)) = 1
    /\ pc[t] = "r_metric" => MetricWrites(t) = {}

C10_Witness ==
  \E t, u \in Trials :
    /\ hist[t].r_result = "returned" /\ trials[t].value = PyNone
    /\ \E w \in MetricWrites(t) : mlflow.runs[w[1]].metrics[w[2]].value = NaN
    /\ hist[u].r_result = "returned" /\ trials[u].value = PyFloat(0)
    /\ \E w \in MetricWrites(u) : mlflow.runs[w[1]].metrics[w[2]].value = PyFloat(0)

====
